---- MODULE Spec2Model ----
(***************************************************************************)
(* Model of mcp-server/backend/app.py: the /api/prompt handler             *)
(* (handle_prompt), the two storage tool functions it dispatches to, and   *)
(* the conversions between the frontend history and the chat session.      *)
(*                                                                         *)
(* Strings are sequences: header values are sequences of characters, texts *)
(* and error messages are sequences of tokens.  A value that may be absent *)
(* (Python None, a missing key) is a sequence of length 0 (None) or 1      *)
(* (Some(x)).                                                              *)
(***************************************************************************)
EXTENDS Integers, Sequences, FiniteSets, TLC

VARIABLES
    pc,                \* position of the handler in handle_prompt
    req,               \* the HTTP request being served
    user_credentials,  \* credentials built from the access token
    chat,              \* chat.history: the session's turns, in order
    response,          \* the last response of chat.send_message
    function_call,     \* the function call picked for dispatch
    tool_output,       \* the result object of the tool function
    reply,             \* the HTTP response of the handler
    trace              \* calls made to the model, the tools and storage

vars == <<pc, req, user_credentials, chat, response, function_call,
          tool_output, reply, trace>>

----------------------------------------------------------------------------
(* Bounds of the model *)

MaxHist == 1

MaxParts == 2

----------------------------------------------------------------------------
(* Values *)

None == <<>>

Some(x) == <<x>>

SeqsUpTo(S, n) == UNION {[1..k -> S] : k \in 0..n}

\* Python truthiness of an optional string: None and "" are falsy.
Truthy(v) == v # None /\ v[1] # <<>>

StartsWith(s, p) == Len(s) >= Len(p) /\ SubSeq(s, 1, Len(p)) = p

\* needle in s (substring test)
Contains(s, needle) ==
    \E i \in 0..(Len(s) - Len(needle)) : SubSeq(s, i + 1, i + Len(needle)) = needle

BearerPrefix == <<"B", "e", "a", "r", "e", "r", " ">>

\* s.split(' ')[1] for an s that holds a space: the characters between the
\* first space and the next one (or the end).
RECURSIVE UpToSpace(_)
UpToSpace(s) ==
    IF s = <<>> \/ Head(s) = " " THEN <<>> ELSE <<Head(s)>> \o UpToSpace(Tail(s))

RECURSIVE AfterFirstSpace(_)
AfterFirstSpace(s) ==
    IF s = <<>> THEN <<>>
    ELSE IF Head(s) = " " THEN Tail(s) ELSE AfterFirstSpace(Tail(s))

AccessToken(auth_header) == UpToSpace(AfterFirstSpace(auth_header))

InvalidCredential == <<"Invalid", " ", "credential">>

AuthErrorMsg == <<"Authorization (Access Token) not provided or invalid">>

PromptErrorMsg == <<"Prompt not provided">>

NoProjectMsg == <<"Project ID not provided by the model.">>

NoBucketMsg == <<"Bucket name not provided by the model.">>

NoProjectDetailsMsg ==
    <<"Project ID not provided by the model for getting bucket details.">>

----------------------------------------------------------------------------
(* Parts, turns and responses of the chat session *)

NoArgs == [project_id |-> None, bucket_name |-> None]

NoOutput == [error |-> None, payload |-> "none"]

TextPart(t) ==
    [kind |-> "text", text |-> t, name |-> "", args |-> NoArgs, resp |-> NoOutput]

FunctionCallPart(n, a) ==
    [kind |-> "function_call", text |-> <<>>, name |-> n, args |-> a,
     resp |-> NoOutput]

FunctionResponsePart(n, out) ==
    [kind |-> "function_response", text |-> <<>>, name |-> n, args |-> NoArgs,
     resp |-> out]

Content(role, parts) == [role |-> role, parts |-> parts]

NoResponse == [candidates |-> <<>>]

NoCall == None

NoRequest ==
    [method |-> "", auth |-> None, body |-> "", prompt |-> None, history |-> None]

NoReply == [status |-> 0, error |-> None, response |-> None, history |-> <<>>]

----------------------------------------------------------------------------
(* Inputs: requests, model replies, failures of the collaborators *)

AuthValues ==
    { <<>>,
      <<"B", "e", "a", "r", "e", "r", " ", "t">>,
      <<"B", "e", "a", "r", "e", "r", " ">>,
      <<"B", "e", "a", "r", "e", "r">>,
      <<"b", "e", "a", "r", "e", "r", " ", "t">>,
      <<"B", "a", "s", "i", "c", " ", "t">>,
      <<" ", "B", "e", "a", "r", "e", "r", " ", "t">> }

AuthHeaders == {None} \cup {Some(v) : v \in AuthValues}

Prompts == {None, Some(<<>>), Some(<<"hello">>)}

\* An entry of the inbound history: a JSON object with optional content, or a
\* value that is no object (dict = FALSE).
HistoryEntries ==
    {[dict |-> TRUE, type |-> t, content |-> Some(<<"a">>)] : t \in {"user", "bot", "system"}}
    \cup {[dict |-> TRUE, type |-> "bot", content |-> None],
          [dict |-> FALSE, type |-> "", content |-> None]}

Histories == {None} \cup {Some(h) : h \in SeqsUpTo(HistoryEntries, MaxHist)}

Requests ==
    {[method |-> m, auth |-> a, body |-> "object", prompt |-> p, history |-> h] :
        m \in {"POST", "OPTIONS"}, a \in AuthHeaders, p \in Prompts, h \in Histories}
    \cup
    {[method |-> m, auth |-> a, body |-> b, prompt |-> None, history |-> None] :
        m \in {"POST", "OPTIONS"}, a \in AuthHeaders, b \in {"array", "invalid"}}

ProjectP == Some(<<"proj">>)

BucketB == Some(<<"bkt">>)

FunctionCalls ==
    {FunctionCallPart("list_gcs_buckets", [project_id |-> p, bucket_name |-> None]) :
        p \in {None, Some(<<>>), ProjectP}}
    \cup
    {FunctionCallPart("get_gcs_bucket_details", a) :
        a \in {[project_id |-> ProjectP, bucket_name |-> None],
               [project_id |-> None, bucket_name |-> BucketB],
               [project_id |-> ProjectP, bucket_name |-> BucketB]}}
    \cup
    {FunctionCallPart("delete_bucket", [project_id |-> ProjectP, bucket_name |-> BucketB])}

\* Parts of the model's reply to the prompt.
PromptReplies == SeqsUpTo({TextPart(<<"b">>)} \cup FunctionCalls, MaxParts)

\* Parts of the model's reply to a function response.
FunctionReplies ==
    SeqsUpTo({TextPart(<<"c">>),
              FunctionCallPart("list_gcs_buckets",
                               [project_id |-> ProjectP, bucket_name |-> None])},
             MaxParts)

\* Texts of the exceptions the collaborators raise.
ErrTexts ==
    { <<"401", " ", "Invalid", " ", "credential", "s">>,
      <<"invalid", " ", "credential">>,
      <<"Deadline", " ", "exceeded">> }

\* Outcome of the storage API: None (success) or Some(text of the exception).
StorageErrorText == <<"403", " ", "Invalid", " ", "credential">>

StorageOutcomes == {None, Some(StorageErrorText)}

AttributeErrorText == <<"object has no attribute 'get'">>

NoTextErrorText == <<"Response has no text">>

----------------------------------------------------------------------------
(* The tool functions *)

ErrorResult(msg) == [error |-> Some(msg), payload |-> "none"]

\* What a call of a tool function does: the result object it returns (output),
\* whether it called the storage API (contacted), and the exception that
\* leaves it (raised), if any.
ToolCall(out, contacted, raised) ==
    [output |-> out, contacted |-> contacted, raised |-> raised]

\* list_gcs_buckets_func without its try/except
list_gcs_buckets_func_NoCatch(project_id, storage) ==
    IF ~Truthy(project_id)
    THEN ToolCall(ErrorResult(NoProjectMsg), FALSE, None)
    ELSE IF storage = None
         THEN ToolCall([error |-> None, payload |-> "buckets"], TRUE, None)
         ELSE ToolCall(NoOutput, TRUE, storage)

\* list_gcs_buckets_func(project_id, credentials); storage is the outcome of
\* the storage API if it is called.
list_gcs_buckets_func(project_id, storage) ==
    IF ~Truthy(project_id)
    THEN ToolCall(ErrorResult(NoProjectMsg), FALSE, None)
    ELSE IF storage = None
         THEN ToolCall([error |-> None, payload |-> "buckets"], TRUE, None)
         ELSE ToolCall(ErrorResult(storage[1]), TRUE, None)

\* get_gcs_bucket_details_func without the check of project_id
get_gcs_bucket_details_func_NoProjectCheck(bucket_name, project_id, storage) ==
    IF ~Truthy(bucket_name)
    THEN ToolCall(ErrorResult(NoBucketMsg), FALSE, None)
    ELSE IF storage = None
         THEN ToolCall([error |-> None, payload |-> "details"], TRUE, None)
         ELSE ToolCall(ErrorResult(storage[1]), TRUE, None)

\* get_gcs_bucket_details_func(bucket_name, project_id, credentials)
get_gcs_bucket_details_func(bucket_name, project_id, storage) ==
    IF ~Truthy(bucket_name)
    THEN ToolCall(ErrorResult(NoBucketMsg), FALSE, None)
    ELSE IF ~Truthy(project_id)
    THEN ToolCall(ErrorResult(NoProjectDetailsMsg), FALSE, None)
    ELSE IF storage = None
         THEN ToolCall([error |-> None, payload |-> "details"], TRUE, None)
         ELSE ToolCall(ErrorResult(storage[1]), TRUE, None)

----------------------------------------------------------------------------
(* Conversions of handle_prompt *)

\* auth_header.split(' ') has an element [1]
HasSecondField(s) == \E i \in 1..Len(s) : s[i] = " "

\* PromptMissing that tests for the empty string only
PromptMissing_EmptyOnly(data) == data.prompt # None /\ data.prompt[1] = <<>>

\* if not prompt
PromptMissing(data) == ~Truthy(data.prompt)

\* the prompt as the text of the user turn
PromptText(data) == IF data.prompt = None THEN <<>> ELSE data.prompt[1]

\* AuthOk with the prefix "Bearer" tested without its space
AuthOk_NoSpace(auth_header) ==
    Truthy(auth_header) /\ StartsWith(auth_header[1], <<"B", "e", "a", "r", "e", "r">>)

\* the Authorization check: the header passes
AuthOk(auth_header) == Truthy(auth_header) /\ StartsWith(auth_header[1], BearerPrefix)

\* IsPreflight with the method tested after the Authorization check
IsPreflight_AfterAuth(r) == r.method = "OPTIONS" /\ AuthOk(r.auth)

\* request.method == 'OPTIONS'
IsPreflight(r) == r.method = "OPTIONS"

\* InboundRole that tests for the session's name of the role
InboundRole_WrongName(type) == IF type = "model" THEN "model" ELSE "user"

\* role of an inbound history entry
InboundRole(type) == IF type = "bot" THEN "model" ELSE "user"

\* h.get('content', '')
InboundContent(h) == IF h.content = None THEN <<>> ELSE h.content[1]

\* history_for_model, for a history whose entries are all objects
HistoryForModel(history) ==
    [i \in 1..Len(history) |->
        Content(InboundRole(history[i].type), <<TextPart(InboundContent(history[i]))>>)]

\* data.get('history', [])
HistoryFromFrontend(data) == IF data.history = None THEN <<>> ELSE data.history[1]

\* response.candidates[0].function_calls
RECURSIVE FunctionCallsOf(_)
FunctionCallsOf(parts) ==
    IF parts = <<>> THEN <<>>
    ELSE (IF Head(parts).kind = "function_call" THEN <<Head(parts)>> ELSE <<>>)
         \o FunctionCallsOf(Tail(parts))

HasFunctionCalls(r) ==
    r.candidates # <<>> /\ FunctionCallsOf(r.candidates[1]) # <<>>

\* PickedCall that takes the last function call
PickedCall_Last(r) ==
    FunctionCallsOf(r.candidates[1])[Len(FunctionCallsOf(r.candidates[1]))]

\* the function call the handler dispatches
PickedCall(r) == FunctionCallsOf(r.candidates[1])[1]

\* [part['text'] for part in parts if 'text' in part]
RECURSIVE TextParts(_)
TextParts(parts) ==
    IF parts = <<>> THEN <<>>
    ELSE (IF Head(parts).kind = "text" THEN <<Head(parts).text>> ELSE <<>>)
         \o TextParts(Tail(parts))

\* "\n".join(text_parts)
RECURSIVE JoinNewline(_)
JoinNewline(texts) ==
    IF texts = <<>> THEN <<>>
    ELSE IF Len(texts) = 1 THEN texts[1]
    ELSE texts[1] \o <<"\n">> \o JoinNewline(Tail(texts))

\* a turn of chat.history is kept in the outbound history
KeptTurn(content) ==
    /\ content.role \in {"user", "model"}
    /\ content.parts # <<>>
    /\ TextParts(content.parts) # <<>>

OutboundType(role) == IF role = "model" THEN "bot" ELSE "user"

\* OutboundContent that keeps the first text part only
OutboundContent_FirstOnly(content) == TextParts(content.parts)[1]

\* "\n".join(text_parts) of a turn
OutboundContent(content) == JoinNewline(TextParts(content.parts))

\* final_history_for_frontend, built from the turns i.. of the history
RECURSIVE OutboundFrom(_, _)
OutboundFrom(history, i) ==
    IF i > Len(history) THEN <<>>
    ELSE (IF KeptTurn(history[i])
          THEN <<[id |-> i - 1,
                  type |-> OutboundType(history[i].role),
                  content |-> OutboundContent(history[i])]>>
          ELSE <<>>)
         \o OutboundFrom(history, i + 1)

FinalHistoryForFrontend(history) == OutboundFrom(history, 1)

\* text of a response: the texts of the first candidate's text parts
RECURSIVE Concat(_)
Concat(texts) == IF texts = <<>> THEN <<>> ELSE Head(texts) \o Concat(Tail(texts))

ResponseText(r) == Concat(TextParts(r.candidates[1]))

\* response.text raises when there is no candidate or no text part
TextMustRaise(r) == r.candidates = <<>> \/ TextParts(r.candidates[1]) = <<>>

\* response.text may raise when the candidate has several parts
TextMayRaise(r) == TextMustRaise(r) \/ Len(r.candidates[1]) > 1

\* ErrorStatus that tests the beginning of the text only
ErrorStatus_Prefix(e) == IF StartsWith(e, InvalidCredential) THEN 401 ELSE 500

\* the except block: status for the text of the exception
ErrorStatus(e) == IF Contains(e, InvalidCredential) THEN 401 ELSE 500

ErrorBody(e) ==
    IF Contains(e, InvalidCredential)
    THEN <<"Invalid or expired access token: ">> \o e
    ELSE e

\* the reply of the server to an exception that leaves handle_prompt
UnhandledReply == [status |-> 500, error |-> None, response |-> None, history |-> <<>>]

ErrorReply(e) ==
    [status |-> ErrorStatus(e), error |-> Some(ErrorBody(e)), response |-> None,
     history |-> <<>>]

----------------------------------------------------------------------------
(* The handler, step by step *)

Init ==
    /\ pc = "idle"
    /\ req = NoRequest
    /\ user_credentials = None
    /\ chat = <<>>
    /\ response = NoResponse
    /\ function_call = NoCall
    /\ tool_output = NoOutput
    /\ reply = NoReply
    /\ trace = <<>>

\* A request arrives at /api/prompt and handle_prompt is entered.
ReceiveRequest ==
    /\ pc = "idle"
    /\ req' \in Requests
    /\ pc' = "handle"
    /\ UNCHANGED <<user_credentials, chat, response, function_call, tool_output,
                   reply, trace>>

\* The reply has been sent: nothing of the request survives it.
Finish ==
    /\ pc = "done"
    /\ pc' = "idle"
    /\ req' = NoRequest
    /\ user_credentials' = None
    /\ chat' = <<>>
    /\ response' = NoResponse
    /\ function_call' = NoCall
    /\ tool_output' = NoOutput
    /\ reply' = NoReply
    /\ trace' = <<>>

\* return <r>, <status>
Return(r) ==
    /\ reply' = r
    /\ pc' = "done"

\* except Exception as e: ...
Raise(e) == Return(ErrorReply(e))

\* if request.method == 'OPTIONS': return '', 204
Preflight ==
    /\ pc = "handle"
    /\ IsPreflight(req)
    /\ Return([status |-> 204, error |-> None, response |-> None, history |-> <<>>])
    /\ UNCHANGED <<req, user_credentials, chat, response, function_call,
                   tool_output, trace>>

\* the Authorization check fails
RejectAuthorization ==
    /\ pc = "handle"
    /\ ~IsPreflight(req)
    /\ ~AuthOk(req.auth)
    /\ Return([status |-> 401, error |-> Some(AuthErrorMsg), response |-> None,
               history |-> <<>>])
    /\ UNCHANGED <<req, user_credentials, chat, response, function_call,
                   tool_output, trace>>

\* the Authorization check passes; the access token is split off the header
\* (outside the try block) and the credentials are built from it, which may
\* raise
BuildCredentials ==
    /\ pc = "handle"
    /\ ~IsPreflight(req)
    /\ AuthOk(req.auth)
    /\ IF ~HasSecondField(req.auth[1])
       THEN /\ Return(UnhandledReply)
            /\ UNCHANGED user_credentials
       ELSE \/ /\ user_credentials' = Some(AccessToken(req.auth[1]))
               /\ pc' = "parse"
               /\ UNCHANGED reply
            \/ /\ \E e \in ErrTexts : Raise(e)
               /\ UNCHANGED user_credentials
    /\ UNCHANGED <<req, chat, response, function_call, tool_output, trace>>

\* data = request.get_json(); prompt = data.get('prompt'); the prompt check
ParseBody ==
    /\ pc = "parse"
    /\ IF req.body = "invalid"
       THEN \E e \in ErrTexts : Raise(e)
       ELSE IF req.body # "object"
       THEN Raise(AttributeErrorText)
       ELSE IF PromptMissing(req)
       THEN Return([status |-> 400, error |-> Some(PromptErrorMsg),
                    response |-> None, history |-> <<>>])
       ELSE /\ pc' = "start_chat"
            /\ UNCHANGED reply
    /\ UNCHANGED <<req, user_credentials, chat, response, function_call,
                   tool_output, trace>>

\* the model object, history_for_model and model.start_chat
StartChat ==
    /\ pc = "start_chat"
    /\ LET history_from_frontend == HistoryFromFrontend(req)
       IN  IF \E i \in 1..Len(history_from_frontend) : ~history_from_frontend[i].dict
           THEN /\ Raise(AttributeErrorText)
                /\ UNCHANGED chat
           ELSE /\ chat' = HistoryForModel(history_from_frontend)
                /\ pc' = "send_prompt"
                /\ UNCHANGED reply
    /\ UNCHANGED <<req, user_credentials, response, function_call, tool_output,
                   trace>>

\* response = chat.send_message(prompt): the session appends the prompt and
\* the reply to its history when the call succeeds
SendPrompt ==
    /\ pc = "send_prompt"
    /\ trace' = Append(trace, "send_prompt")
    /\ \/ \E parts \in PromptReplies :
            /\ response' = [candidates |-> <<parts>>]
            /\ chat' = chat \o <<Content("user", <<TextPart(PromptText(req))>>),
                                 Content("model", parts)>>
            /\ pc' = "dispatch"
            /\ UNCHANGED reply
       \/ /\ \E e \in ErrTexts : Raise(e)
          /\ UNCHANGED <<response, chat>>
    /\ UNCHANGED <<req, user_credentials, function_call, tool_output>>

\* DispatchName with list_gcs_buckets as the branch of every other name
DispatchName_Default(r) ==
    IF ~HasFunctionCalls(r) THEN ""
    ELSE IF PickedCall(r).name = "get_gcs_bucket_details"
         THEN "get_gcs_bucket_details" ELSE "list_gcs_buckets"

\* the name of the call the handler looks at, if there is one
DispatchName(r) == IF HasFunctionCalls(r) THEN PickedCall(r).name ELSE ""

\* no function call, or one whose name is no tool of the handler
NoDispatch ==
    /\ pc = "dispatch"
    /\ DispatchName(response) \notin {"list_gcs_buckets", "get_gcs_bucket_details"}
    /\ function_call' = IF HasFunctionCalls(response)
                        THEN Some(PickedCall(response)) ELSE NoCall
    /\ pc' = "build_reply"
    /\ UNCHANGED <<req, user_credentials, chat, response, tool_output, reply, trace>>

\* tool_output = list_gcs_buckets_func(...)
CallListBuckets ==
    /\ pc = "dispatch"
    /\ DispatchName(response) = "list_gcs_buckets"
    /\ function_call' = Some(PickedCall(response))
    /\ \E storage \in StorageOutcomes :
          LET r == list_gcs_buckets_func(PickedCall(response).args.project_id, storage)
          IN  /\ trace' = trace \o <<"list_gcs_buckets_func">>
                                \o (IF r.contacted THEN <<"storage">> ELSE <<>>)
              /\ IF r.raised = None
                 THEN /\ tool_output' = r.output
                      /\ pc' = "send_function_response"
                      /\ UNCHANGED reply
                 ELSE /\ Raise(r.raised[1])
                      /\ UNCHANGED tool_output
    /\ UNCHANGED <<req, user_credentials, chat, response>>

\* tool_output = get_gcs_bucket_details_func(...)
CallGetBucketDetails ==
    /\ pc = "dispatch"
    /\ DispatchName(response) = "get_gcs_bucket_details"
    /\ function_call' = Some(PickedCall(response))
    /\ \E storage \in StorageOutcomes :
          LET r == get_gcs_bucket_details_func(PickedCall(response).args.bucket_name,
                                               PickedCall(response).args.project_id,
                                               storage)
          IN  /\ trace' = trace \o <<"get_gcs_bucket_details_func">>
                                \o (IF r.contacted THEN <<"storage">> ELSE <<>>)
              /\ IF r.raised = None
                 THEN /\ tool_output' = r.output
                      /\ pc' = "send_function_response"
                      /\ UNCHANGED reply
                 ELSE /\ Raise(r.raised[1])
                      /\ UNCHANGED tool_output
    /\ UNCHANGED <<req, user_credentials, chat, response>>

\* response = chat.send_message(Part.from_function_response(...))
SendFunctionResponse ==
    /\ pc = "send_function_response"
    /\ trace' = Append(trace, "send_function_response")
    /\ \/ \E parts \in FunctionReplies :
            /\ response' = [candidates |-> <<parts>>]
            /\ chat' = chat \o
                  <<Content("user",
                            <<FunctionResponsePart(function_call[1].name, tool_output)>>),
                    Content("model", parts)>>
            /\ pc' = "build_reply"
            /\ UNCHANGED reply
       \/ /\ \E e \in ErrTexts : Raise(e)
          /\ UNCHANGED <<response, chat>>
    /\ UNCHANGED <<req, user_credentials, function_call, tool_output>>

\* the outbound history, response.text and the 200 reply
BuildReply ==
    /\ pc = "build_reply"
    /\ \/ /\ ~TextMustRaise(response)
          /\ Return([status |-> 200, error |-> None,
                     response |-> Some(ResponseText(response)),
                     history |-> FinalHistoryForFrontend(chat)])
       \/ /\ TextMayRaise(response)
          /\ Raise(NoTextErrorText)
    /\ UNCHANGED <<req, user_credentials, chat, response, function_call,
                   tool_output, trace>>

Next ==
    \/ ReceiveRequest
    \/ Finish
    \/ Preflight
    \/ RejectAuthorization
    \/ BuildCredentials
    \/ ParseBody
    \/ StartChat
    \/ SendPrompt
    \/ NoDispatch
    \/ CallListBuckets
    \/ CallGetBucketDetails
    \/ SendFunctionResponse
    \/ BuildReply

Spec == Init /\ [][Next]_vars

----------------------------------------------------------------------------
(* Vocabulary of the properties *)

Done == pc = "done"

\* The Authorization header is absent or does not begin with "Bearer ".
BadAuthorization ==
    req.auth = None \/ ~StartsWith(req.auth[1], BearerPrefix)

\* The rejection of the Authorization check.
RejectedByAuthCheck == reply.status = 401 /\ reply.error = Some(AuthErrorMsg)

EmptyBody == reply.error = None /\ reply.response = None /\ reply.history = <<>>

Positions(ev) == {i \in DOMAIN trace : trace[i] = ev}

ToolEvents == {"list_gcs_buckets_func", "get_gcs_bucket_details_func"}

ToolPositions == {i \in DOMAIN trace : trace[i] \in ToolEvents}

InboundLen == Len(HistoryFromFrontend(req))

\* The model has replied to the prompt; its reply is the turn after the prompt.
PromptAnswered == Len(chat) >= InboundLen + 2

PromptReplyParts == chat[InboundLen + 2].parts

CallIndexes(parts) == {i \in DOMAIN parts : parts[i].kind = "function_call"}

TextIndexes(parts) == {i \in DOMAIN parts : parts[i].kind = "text"}

\* The first function call of the reply to the prompt.
FirstCall(parts) ==
    parts[CHOOSE i \in CallIndexes(parts) : \A j \in CallIndexes(parts) : i <= j]

ToolNames == {"list_gcs_buckets", "get_gcs_bucket_details"}

----------------------------------------------------------------------------
(* C1 *)

\* C1 as stated: every request whose Authorization header is absent or does
\* not begin with "Bearer " is answered with status 401.
C1_EveryRequestWithoutBearer401 ==
    Done /\ BadAuthorization => reply.status = 401

\* C1 amended: every POST request whose Authorization header is absent or
\* does not begin with "Bearer " is answered with status 401, whatever the
\* body, prompt or history.
C1_PostWithoutBearer401 ==
    Done /\ req.method = "POST" /\ BadAuthorization => RejectedByAuthCheck

C1_Witness ==
    /\ Done
    /\ req.method = "POST"
    /\ req.auth = Some(<<"B", "a", "s", "i", "c", " ", "t">>)
    /\ req.body = "object"
    /\ req.prompt = Some(<<"hello">>)
    /\ reply.status = 401

----------------------------------------------------------------------------
(* C2 *)

\* The body is a JSON object without prompt.
PromptAbsent == req.body = "object" /\ req.prompt = None

\* C2 as stated: every request that is missing prompt is answered with
\* status 400.
C2_EveryRequestWithoutPrompt400 ==
    Done /\ PromptAbsent => reply.status = 400

\* C2 amended: every POST request that passes the Authorization check, whose
\* credentials are built without an exception and whose body is a JSON object
\* missing prompt, is answered with status 400.
C2_AuthorizedPostWithoutPrompt400 ==
    Done /\ req.method = "POST" /\ ~BadAuthorization /\ user_credentials # None
         /\ PromptAbsent
      => reply.status = 400 /\ reply.error = Some(PromptErrorMsg)

C2_Witness ==
    /\ Done
    /\ req.method = "POST"
    /\ ~BadAuthorization
    /\ PromptAbsent
    /\ req.history # None
    /\ reply.status = 400

----------------------------------------------------------------------------
(* C3 *)

\* C3: every OPTIONS request is answered with an empty body and status 204,
\* whatever its headers and body, and neither the model nor storage nor a
\* tool is called while it is served.
C3_OptionsAlways204 ==
    req.method = "OPTIONS" =>
        /\ trace = <<>>
        /\ chat = <<>>
        /\ Done => reply.status = 204 /\ EmptyBody

C3_Witness ==
    /\ Done
    /\ req.method = "OPTIONS"
    /\ BadAuthorization
    /\ req.body = "object"
    /\ req.prompt = Some(<<"hello">>)
    /\ reply.status = 204

----------------------------------------------------------------------------
(* C4 *)

\* The storage client raised in the tool that was run.
StorageFailed == tool_output.error = Some(StorageErrorText)

FunctionResponseSent == Positions("send_function_response") # {}

\* C4: a tool that was dispatched returns a result object (a payload or an
\* error text) also when the storage client raises; the handler then sends
\* that object to the chat session as a function response; and the request
\* ends with an error status only through what happens at or after that
\* second call of the model, never through the storage failure.
C4_ToolFailuresAreData ==
    /\ ToolPositions # {} /\ pc # "done" =>
          /\ tool_output # NoOutput
          /\ tool_output.error # None \/ tool_output.payload \in {"buckets", "details"}
    /\ ToolPositions # {} /\ Done => FunctionResponseSent
    /\ ToolPositions # {} /\ Len(chat) > InboundLen + 2 =>
          chat[InboundLen + 3] =
              Content("user", <<FunctionResponsePart(FirstCall(PromptReplyParts).name,
                                                     tool_output)>>)
    /\ Done /\ StorageFailed /\ Len(chat) > InboundLen + 2
            /\ Len(response.candidates[1]) = 1 /\ response.candidates[1][1].kind = "text"
         => reply.status = 200
    /\ Done /\ StorageFailed /\ reply.status # 200 =>
          /\ reply.error # None
          /\ ~Contains(reply.error[1], StorageErrorText)

C4_Witness ==
    /\ Done
    /\ StorageFailed
    /\ Positions("storage") # {}
    /\ reply.status = 200

----------------------------------------------------------------------------
(* C5 *)

Missing(v) == v = None \/ v = Some(<<>>)

\* The call that was dispatched lacks a required argument.
DispatchedWithMissingArgument ==
    /\ function_call # NoCall
    /\ \/ /\ function_call[1].name = "list_gcs_buckets"
          /\ Missing(function_call[1].args.project_id)
       \/ /\ function_call[1].name = "get_gcs_bucket_details"
          /\ \/ Missing(function_call[1].args.bucket_name)
             \/ Missing(function_call[1].args.project_id)

\* C5: a dispatched call of list_gcs_buckets without project_id (absent or
\* empty), or of get_gcs_bucket_details without bucket_name or project_id,
\* yields a result object with an error key, handed on to the model, and
\* storage is not called.
C5_MissingArgumentYieldsError ==
    DispatchedWithMissingArgument =>
        /\ tool_output.error # None
        /\ Positions("storage") = {}
        /\ ToolPositions # {}
        /\ pc = "send_function_response" \/ FunctionResponseSent

C5_Witness ==
    /\ pc = "send_function_response"
    /\ function_call # NoCall
    /\ function_call[1].name = "list_gcs_buckets"
    /\ function_call[1].args.project_id = Some(<<>>)
    /\ tool_output.error = Some(NoProjectMsg)

----------------------------------------------------------------------------
(* C6 *)

\* The outbound history as the frontend sends it back: each entry an object
\* with the type and content it was given.
FedBack(out) ==
    [i \in 1..Len(out) |->
        [dict |-> TRUE, type |-> out[i].type, content |-> Some(out[i].content)]]

\* One full round trip: outbound history -> inbound -> session turns -> outbound.
RoundTrip(out) == FinalHistoryForFrontend(HistoryForModel(FedBack(out)))

TypesOf(h) == [i \in 1..Len(h) |-> h[i].type]

\* C6: for every outbound history the handler produces, feeding it back maps
\* each "bot" entry to role "model" and each "user" entry to role "user", and
\* after one and after two round trips every entry is there with its type
\* unchanged.
C6_RolesSurviveRoundTrips ==
    Done /\ reply.status = 200 =>
        LET out    == reply.history
            turns  == HistoryForModel(FedBack(out))
            once   == RoundTrip(out)
            twice  == RoundTrip(once)
        IN  /\ Len(turns) = Len(out)
            /\ \A i \in 1..Len(out) :
                  /\ out[i].type \in {"user", "bot"}
                  /\ out[i].type = "bot" => turns[i].role = "model"
                  /\ out[i].type = "user" => turns[i].role = "user"
            /\ TypesOf(once) = TypesOf(out)
            /\ TypesOf(twice) = TypesOf(out)

C6_Witness ==
    /\ Done
    /\ reply.status = 200
    /\ Len(reply.history) >= 3
    /\ \E i, j \in 1..Len(reply.history) :
          reply.history[i].type = "bot" /\ reply.history[j].type = "user"
    /\ TypesOf(RoundTrip(RoundTrip(reply.history))) = TypesOf(reply.history)

----------------------------------------------------------------------------
(* C7 *)

\* C7: in every request the chat session receives at most two messages, the
\* prompt and then at most one function response; at most one tool function
\* is run, for the first function call of the reply to the prompt, also when
\* that reply holds several; and a function call in the reply to the
\* function response is never dispatched.
C7_AtMostOneCallServiced ==
    /\ Cardinality(Positions("send_prompt")) <= 1
    /\ Cardinality(Positions("send_function_response")) <= 1
    /\ Cardinality(ToolPositions) <= 1
    /\ \A i \in Positions("send_function_response") :
          /\ i = Len(trace)
          /\ Positions("send_prompt") = {1}
          /\ ToolPositions # {}
    /\ \A i \in ToolPositions :
          /\ PromptAnswered
          /\ CallIndexes(PromptReplyParts) # {}
          /\ function_call = Some(FirstCall(PromptReplyParts))
          /\ trace[i] = "list_gcs_buckets_func" <=>
                FirstCall(PromptReplyParts).name = "list_gcs_buckets"
          /\ trace[i] = "get_gcs_bucket_details_func" <=>
                FirstCall(PromptReplyParts).name = "get_gcs_bucket_details"
    /\ function_call # NoCall =>
          function_call = Some(FirstCall(PromptReplyParts))

C7_Witness ==
    /\ Done
    /\ PromptAnswered
    /\ Cardinality(CallIndexes(PromptReplyParts)) = 2
    /\ PromptReplyParts[1].name = "list_gcs_buckets"
    /\ PromptReplyParts[2].name = "get_gcs_bucket_details"
    /\ Len(chat) = InboundLen + 4
    /\ CallIndexes(chat[InboundLen + 4].parts) # {}
    /\ trace = <<"send_prompt", "list_gcs_buckets_func", "storage",
                 "send_function_response">>

----------------------------------------------------------------------------
(* C8 *)

\* The turns of the session that have role user or model and a text part.
TextTurns ==
    {i \in DOMAIN chat :
        chat[i].role \in {"user", "model"} /\ TextIndexes(chat[i].parts) # {}}

\* The k-th element of a finite set of numbers, in increasing order.
Nth(S, k) == CHOOSE i \in S : Cardinality({j \in S : j < i}) = k - 1

\* The entry of the outbound history for turn i of the session.
EntryOf(i) ==
    [id |-> i - 1,
     type |-> IF chat[i].role = "model" THEN "bot" ELSE "user",
     content |-> JoinNewline(TextParts(chat[i].parts))]

\* C8: on a successful request the outbound history is the session's turns,
\* in order, that have role user or model and a text part, "model" given as
\* "bot", the content the newline-join of all text parts of the turn; turns
\* with only a function call or a function response do not appear.  When the
\* model returns no function call, it is the inbound turns, then the prompt
\* (user), then the reply (bot).
C8_OutboundHistory ==
    Done /\ reply.status = 200 =>
        /\ Len(reply.history) = Cardinality(TextTurns)
        /\ \A k \in 1..Len(reply.history) :
              reply.history[k] = EntryOf(Nth(TextTurns, k))
        /\ CallIndexes(PromptReplyParts) = {} =>
              /\ Len(chat) = InboundLen + 2
              /\ Len(reply.history) = InboundLen + 2
              /\ \A k \in 1..InboundLen :
                    LET h == HistoryFromFrontend(req)[k]
                    IN  /\ reply.history[k].type =
                              (IF h.type = "bot" THEN "bot" ELSE "user")
                        /\ reply.history[k].content =
                              (IF h.content = None THEN <<>> ELSE h.content[1])
              /\ reply.history[InboundLen + 1].type = "user"
              /\ reply.history[InboundLen + 1].content = req.prompt[1]
              /\ reply.history[InboundLen + 2].type = "bot"
              /\ reply.history[InboundLen + 2].content =
                    JoinNewline(TextParts(PromptReplyParts))

C8_Witness ==
    /\ Done
    /\ reply.status = 200
    /\ Len(chat) = InboundLen + 4
    /\ InboundLen = 1
    /\ TextIndexes(chat[InboundLen + 2].parts) = {}
    /\ Cardinality(TextIndexes(chat[InboundLen + 4].parts)) = 2
    /\ Len(reply.history) = 3
    /\ reply.history[3].content = <<"c", "\n", "c">>

----------------------------------------------------------------------------
(* C9 *)

\* C9: every request ends with status 200, 204, 400, 401 or 500; a failure
\* after the Authorization check is answered with a JSON {error} body, with
\* status 401 if the text of the error holds "Invalid credential" and with
\* status 500 otherwise; no exception leaves handle_prompt.
C9_FailuresBecomeErrorReplies ==
    Done =>
        /\ reply.status \in {200, 204, 400, 401, 500}
        /\ reply.status \in {400, 401, 500} => reply.error # None
        /\ reply.status = 401 /\ ~RejectedByAuthCheck =>
              Contains(reply.error[1], InvalidCredential)
        /\ reply.status = 500 => ~Contains(reply.error[1], InvalidCredential)
        /\ reply.status \in {200, 204} => reply.error = None

\* a failure of the model with "Invalid credential" in its text, after a tool
\* has run, is answered with 401
C9_Witness ==
    /\ Done
    /\ reply.status = 401
    /\ ~RejectedByAuthCheck
    /\ trace # <<>>
    /\ trace[Len(trace)] = "send_function_response"
    /\ reply.error # None
    /\ Contains(reply.error[1], <<"Invalid", " ", "credential", "s">>)

----------------------------------------------------------------------------
(* C10 *)

\* C10: a request rejected by the Authorization check or for a missing prompt
\* calls neither the model nor storage; storage is called at most once, only
\* after the reply to the prompt held a function call named list_gcs_buckets
\* or get_gcs_bucket_details, and before the function response is sent; when
\* the first function call has another name, no tool is run and no second
\* message is sent to the model.
C10_OrderOfExternalCalls ==
    /\ Done /\ (RejectedByAuthCheck \/ reply.status = 400) => trace = <<>>
    /\ Cardinality(Positions("storage")) <= 1
    /\ \A i \in Positions("storage") :
          /\ 1 \in Positions("send_prompt")
          /\ i > 1
          /\ PromptAnswered
          /\ \E c \in CallIndexes(PromptReplyParts) :
                PromptReplyParts[c].name \in ToolNames
          /\ \A j \in Positions("send_function_response") : i < j
    /\ /\ pc \in {"build_reply", "done"}
       /\ PromptAnswered
       /\ CallIndexes(PromptReplyParts) # {}
       /\ FirstCall(PromptReplyParts).name \notin ToolNames
       => trace = <<"send_prompt">>

C10_Witness ==
    /\ Done
    /\ trace = <<"send_prompt", "get_gcs_bucket_details_func", "storage",
                 "send_function_response">>
    /\ reply.status = 200

====
